---- MODULE Spec2Model ----
(***************************************************************************)
(* A model of sitemap-diff: the crawler (differ.py) that records the page  *)
(* URLs of a site per timestamped run directory and diffs each run against *)
(* the latest previous run, and the reporter (reporter.py) that aggregates *)
(* the persisted diffs.                                                    *)
(*                                                                         *)
(* Strings whose characters matter (directory names, URLs) are tuples of   *)
(* one-character strings, so that str(int), int(str) and Python's string   *)
(* ordering are computed as the code computes them.                        *)
(***************************************************************************)
EXTENDS Integers, Sequences, FiniteSets, TLC

VARIABLES
    clock,          \* the wall clock, in whole seconds (datetime.now().timestamp())
    domain_dir,     \* the site root on disk: [exists, dirs: name -> run directory]
    pc,             \* where the crawler's main() is: "idle", "crawl", "diff"
    config,         \* SiteConfig of the run in progress (its timestamp)
    url_map,        \* the run's URL -> source map, a sequence of [url, source] items
    history,        \* one record per finished crawler run, in order
    aggregate_data, \* what the reporter's last invocation computed
    call,           \* the arguments of a function applied on its own
    result          \* what that function returned

vars == <<clock, domain_dir, pc, config, url_map, history, aggregate_data, call, result>>

(***************************************************************************)
(* Bounds of the model.                                                    *)
(***************************************************************************)
EpochStart == 8      \* the clock's first value; the runs cross from "9" to "10"
ClockSpan == 2       \* how many seconds the clock may advance
MaxRuns == 3         \* crawler runs per behaviour
MaxNodes == 1        \* sitemap nodes a crawl may find
MaxPages == 3        \* distinct page URLs the site may list

(***************************************************************************)
(* Strings.                                                                *)
(***************************************************************************)
DigitChars == <<"0", "1", "2", "3", "4", "5", "6", "7", "8", "9">>

\* ord(c), for the characters the model uses
Ord ==
    ("+" :> 43) @@ ("-" :> 45) @@ ("/" :> 47) @@
    ("0" :> 48) @@ ("1" :> 49) @@ ("2" :> 50) @@ ("3" :> 51) @@ ("4" :> 52) @@
    ("5" :> 53) @@ ("6" :> 54) @@ ("7" :> 55) @@ ("8" :> 56) @@ ("9" :> 57) @@
    ("a" :> 97) @@ ("b" :> 98) @@ ("c" :> 99) @@ ("e" :> 101) @@ ("o" :> 111) @@
    ("p" :> 112) @@ ("r" :> 114) @@ ("s" :> 115) @@ ("t" :> 116)

IsDigit(c) == Ord[c] >= 48 /\ Ord[c] <= 57

\* Python's s < t on str: by code point, a proper prefix first
StrLess(s, t) ==
    \E i \in 1..Len(t) :
        /\ \A j \in 1..(i - 1) : j <= Len(s) /\ s[j] = t[j]
        /\ \/ i = Len(s) + 1
           \/ i <= Len(s) /\ Ord[s[i]] < Ord[t[i]]

\* str(n) for an int n >= 0
RECURSIVE ToStr(_)
ToStr(n) ==
    IF n < 10 THEN <<DigitChars[n + 1]>>
    ELSE ToStr(n \div 10) \o <<DigitChars[(n % 10) + 1]>>

RECURSIVE DigitsValue(_)
DigitsValue(s) ==
    IF Len(s) = 0 THEN 0
    ELSE 10 * DigitsValue(SubSeq(s, 1, Len(s) - 1)) + (Ord[s[Len(s)]] - 48)

AllDigits(s) == Len(s) > 0 /\ \A i \in 1..Len(s) : IsDigit(s[i])

\* int(s): [ok |-> FALSE] is ValueError. An optional sign, then decimal digits
\* (the blanks and underscores int() also takes are not in the model's alphabet).
ParseInt(s) ==
    IF AllDigits(s) THEN [ok |-> TRUE, val |-> DigitsValue(s)]
    ELSE IF Len(s) > 1 /\ s[1] = "-" /\ AllDigits(Tail(s))
        THEN [ok |-> TRUE, val |-> 0 - DigitsValue(Tail(s))]
    ELSE IF Len(s) > 1 /\ s[1] = "+" /\ AllDigits(Tail(s))
        THEN [ok |-> TRUE, val |-> DigitsValue(Tail(s))]
    ELSE [ok |-> FALSE, val |-> 0]

IntOf(s) == ParseInt(s).val

\* the orders in which a set (a Python set, a directory listing) may be iterated
RECURSIVE Orders(_)
Orders(S) ==
    IF S = {} THEN {<<>>}
    ELSE UNION {{<<x>> \o rest : rest \in Orders(S \ {x})} : x \in S}

Range(s) == {s[i] : i \in 1..Len(s)}

\* sorted(seq) on str items (stable insertion; ties cannot differ)
RECURSIVE SortedStr(_)
SortedStr(seq) ==
    IF Len(seq) = 0 THEN <<>>
    ELSE LET done == SortedStr(SubSeq(seq, 1, Len(seq) - 1))
             x == seq[Len(seq)]
             pos == Cardinality({i \in 1..Len(done) : ~ StrLess(x, done[i])})
         IN SubSeq(done, 1, pos) \o <<x>> \o SubSeq(done, pos + 1, Len(done))

\* a sort of the run directories by name instead of by int(name)
SortedByName(seq) == SortedStr(seq)

\* sorted(seq, key=lambda d: int(d.name)): stable, so ties keep their listing order
RECURSIVE SortedByInt(_)
SortedByInt(seq) ==
    IF Len(seq) = 0 THEN <<>>
    ELSE LET done == SortedByInt(SubSeq(seq, 1, Len(seq) - 1))
             x == seq[Len(seq)]
             pos == Cardinality({i \in 1..Len(done) : IntOf(done[i]) <= IntOf(x)})
         IN SubSeq(done, 1, pos) \o <<x>> \o SubSeq(done, pos + 1, Len(done))

None == <<>>         \* Python's None where a name is expected (no name is empty)

(***************************************************************************)
(* The site: its page URLs and sitemap URLs, and what a crawl may find.    *)
(***************************************************************************)
Page(n) == <<"p", "/">> \o ToStr(n + 8)         \* "p/9", "p/10", "p/11", ...
PageUrls == {Page(n) : n \in 1..MaxPages}
SitemapUrl(k) == <<"s", "/">> \o ToStr(k)

\* a node's pages, in the order all_pages() yields them
PageLists == {SortedStr(CHOOSE o \in Orders(S) : TRUE) : S \in SUBSET PageUrls}

\* the lists get_sitemap_nodes may return: node k is sitemap s/k
NodeLists ==
    UNION {{f \in [1..n -> [url : {SitemapUrl(k) : k \in 1..MaxNodes}, pages : PageLists]] :
                \A k \in 1..n : f[k].url = SitemapUrl(k)} : n \in 0..MaxNodes}

(***************************************************************************)
(* Files and directories.  A CSV file is its header and its rows, a row a  *)
(* tuple of fields in header order.                                        *)
(***************************************************************************)
NoFile == [exists |-> FALSE, header |-> <<>>, rows |-> <<>>]
EmptyFile == [exists |-> TRUE, header |-> <<>>, rows |-> <<>>]   \* zero bytes
CsvFile(header, rows) == [exists |-> TRUE, header |-> header, rows |-> rows]

UrlsHeader == <<"url", "source">>
DiffHeader == <<"status", "url", "previous_scan_time", "current_scan_time">>

HasColumn(file, name) == \E i \in 1..Len(file.header) : file.header[i] = name
Column(file, name) == CHOOSE i \in 1..Len(file.header) : file.header[i] = name

EmptyDir == [urls_csv |-> NoFile, diff_csv |-> NoFile]
NoSiteRoot == [exists |-> FALSE, dirs |-> <<>>]
Subdirs(root) == DOMAIN root.dirs

\* Path.mkdir(exist_ok=True) of a subdirectory of the site root
Mkdir(root, name) ==
    [exists |-> TRUE,
     dirs |-> IF name \in DOMAIN root.dirs THEN root.dirs ELSE (name :> EmptyDir) @@ root.dirs]

WriteFile(root, name, field, file) ==
    [root EXCEPT !.dirs = [d \in DOMAIN root.dirs |->
        IF d = name THEN [root.dirs[d] EXCEPT ![field] = file] ELSE root.dirs[d]]]

ReportsDir == <<"r", "e", "p", "o", "r", "t", "s">>

(***************************************************************************)
(* differ.py                                                               *)
(***************************************************************************)
\* format_timestamp: int(unix_timestamp) rendered in local time as M/D/YYYY H:MM:SSam|pm;
\* the rendering is kept as its format and the instant it renders
format_timestamp(unix_timestamp) == <<"M/D/YYYY H:MM:SSam|pm", IntOf(unix_timestamp)>>

\* d[key] = value on a dict kept as its items in insertion order
DictSet(d, key, value) ==
    IF \E i \in 1..Len(d) : d[i].url = key
    THEN [i \in 1..Len(d) |-> IF d[i].url = key THEN [url |-> key, source |-> value] ELSE d[i]]
    ELSE Append(d, [url |-> key, source |-> value])

RECURSIVE AddPages(_, _, _)
AddPages(d, node_url, pages) ==
    IF Len(pages) = 0 THEN d
    ELSE AddPages(DictSet(d, Head(pages), node_url), node_url, Tail(pages))

\* {page.url: node.url for node in nodes for page in node.all_pages()}
RECURSIVE extract_url_map(_)
extract_url_map(nodes) ==
    IF Len(nodes) = 0 THEN <<>>
    ELSE LET last == nodes[Len(nodes)]
         IN AddPages(extract_url_map(SubSeq(nodes, 1, Len(nodes) - 1)), last.url, last.pages)

\* the items taken for the keys: (url, source) pairs
Keys_items(d) == {<<d[i].url, d[i].source>> : i \in 1..Len(d)}

\* set(url_map.keys())
Keys(d) == {d[i].url : i \in 1..Len(d)}

\* the header line not written: the first item stands where the header belongs
save_urls_csv_headerless(map) ==
    CsvFile(<<map[1].url, map[1].source>>,
            [i \in 1..(Len(map) - 1) |-> <<map[i + 1].url, map[i + 1].source>>])

\* the file save_urls_csv writes for a non-empty map: one (url, source) row per item
save_urls_csv(map) ==
    CsvFile(UrlsHeader, [i \in 1..Len(map) |-> <<map[i].url, map[i].source>>])

\* pd.read_csv's reading of one column of text cells: a column whose cells are all
\* numerals comes back as integers; otherwise a cell spelled like a missing value
\* comes back as NaN and every other cell as the string it is
NaValues == {<<>>, <<"N", "A">>, <<"N", "/", "A">>, <<"n", "/", "a">>, <<"N", "a", "N">>,
             <<"n", "a", "n">>, <<"n", "u", "l", "l">>, <<"N", "U", "L", "L">>,
             <<"N", "o", "n", "e">>}
NaN == <<"float", "nan">>
read_csv_column(file, name) ==
    LET cells == [i \in 1..Len(file.rows) |-> file.rows[i][Column(file, name)]]
    IN IF Len(cells) > 0 /\ \A i \in 1..Len(cells) :
            cells[i] \notin NaValues /\ AllDigits(cells[i])
       THEN [i \in 1..Len(cells) |-> IntOf(cells[i])]
       ELSE [i \in 1..Len(cells) |-> IF cells[i] \in NaValues THEN NaN ELSE cells[i]]

\* the wrong column of urls.csv read back
load_previous_urls_source(file) ==
    IF file.exists /\ HasColumn(file, "source")
    THEN Range(read_csv_column(file, "source"))
    ELSE {}

\* set(pd.read_csv(csv_path)['url']); any exception gives set()
load_previous_urls(file) ==
    IF file.exists /\ HasColumn(file, "url")
    THEN Range(read_csv_column(file, "url"))
    ELSE {}

\* the two differences taken the wrong way round
find_url_differences_swapped(current_urls, prev_urls) ==
    [new_urls |-> prev_urls \ current_urls, deleted_urls |-> current_urls \ prev_urls]

\* UrlDiff(new_urls = current - prev, deleted_urls = prev - current)
find_url_differences(current_urls, prev_urls) ==
    [new_urls |-> current_urls \ prev_urls, deleted_urls |-> prev_urls \ current_urls]

\* the rows in the order the sets are iterated, without sorted()
diff_rows_unsorted(new_iter, deleted_iter, prev_timestamp, current_timestamp) ==
    [i \in 1..Len(new_iter) |-> <<"new", new_iter[i],
            format_timestamp(prev_timestamp), format_timestamp(current_timestamp)>>]
    \o [i \in 1..Len(deleted_iter) |-> <<"deleted", deleted_iter[i],
            format_timestamp(prev_timestamp), format_timestamp(current_timestamp)>>]

\* the two scan times written into each other's column
diff_rows_times_swapped(new_iter, deleted_iter, prev_timestamp, current_timestamp) ==
    LET new_sorted == SortedStr(new_iter)
        deleted_sorted == SortedStr(deleted_iter)
    IN [i \in 1..Len(new_sorted) |->
            <<"new", new_sorted[i],
              format_timestamp(current_timestamp), format_timestamp(prev_timestamp)>>]
       \o [i \in 1..Len(deleted_sorted) |->
               <<"deleted", deleted_sorted[i],
                 format_timestamp(current_timestamp), format_timestamp(prev_timestamp)>>]

\* the rows save_diff_csv builds; new_iter and deleted_iter are the two sets as iterated
diff_rows(new_iter, deleted_iter, prev_timestamp, current_timestamp) ==
    LET prev_time_fmt == format_timestamp(prev_timestamp)
        current_time_fmt == format_timestamp(current_timestamp)
        new_sorted == SortedStr(new_iter)
        deleted_sorted == SortedStr(deleted_iter)
    IN [i \in 1..Len(new_sorted) |-> <<"new", new_sorted[i], prev_time_fmt, current_time_fmt>>]
       \o [i \in 1..Len(deleted_sorted) |->
               <<"deleted", deleted_sorted[i], prev_time_fmt, current_time_fmt>>]

\* the file save_diff_csv writes: the header always, then the rows
save_diff_csv(new_iter, deleted_iter, prev_timestamp, current_timestamp) ==
    CsvFile(DiffHeader, diff_rows(new_iter, deleted_iter, prev_timestamp, current_timestamp))

\* the oldest run taken instead of the latest
find_latest_previous_run_oldest(listing, timestamp) ==
    LET numeric == SelectSeq(listing, LAMBDA d : ParseInt(d).ok)
        all_runs == SelectSeq(numeric, LAMBDA d : d # timestamp)
        sorted_runs == SortedByInt(all_runs)
    IN IF Len(sorted_runs) > 0 THEN sorted_runs[1] ELSE None

\* the current run's own directory not filtered out
find_latest_previous_run_self(listing, timestamp) ==
    LET all_runs == SelectSeq(listing, LAMBDA d : ParseInt(d).ok)
        sorted_runs == SortedByInt(all_runs)
    IN IF Len(sorted_runs) > 0 THEN sorted_runs[Len(sorted_runs)] ELSE None

\* listing: the subdirectories of the site root in the order glob('*') yields them
find_latest_previous_run(listing, timestamp) ==
    LET numeric == SelectSeq(listing, LAMBDA d : ParseInt(d).ok)
        all_runs == SelectSeq(numeric, LAMBDA d : d # timestamp)
        sorted_runs == SortedByInt(all_runs)
    IN IF Len(sorted_runs) > 0 THEN sorted_runs[Len(sorted_runs)] ELSE None

(***************************************************************************)
(* reporter.py                                                             *)
(***************************************************************************)
\* a diff.csv without rows taken for a missing one
find_all_diffs_nonempty(root, listing) ==
    SelectSeq(SortedStr(listing), LAMBDA d : Len(root.dirs[d].diff_csv.rows) > 0)

\* the (timestamp_dir, diff_path) pairs, by name: sorted(domain_dir.glob('*')) orders
\* the paths as strings, and a pair is kept when the directory holds a diff.csv
find_all_diffs(root, listing) ==
    SelectSeq(SortedStr(listing), LAMBDA d : root.dirs[d].diff_csv.exists)

\* pd.read_csv(diff_path); on any exception an empty frame with the four columns
read_diff_data(file) ==
    IF file.exists /\ Len(file.header) > 0 THEN file ELSE CsvFile(DiffHeader, <<>>)

\* the status filter left out: len(df)
CountStatusAll(df, status) == Len(df.rows)

\* len(df[df['status'] == status])
CountStatus(df, status) ==
    Cardinality({i \in 1..Len(df.rows) : df.rows[i][Column(df, "status")] = status})

NoAggregate ==
    [ran |-> FALSE, runs |-> <<>>, total_added |-> 0, total_deleted |-> 0,
     chart_data |-> [timestamps |-> <<>>, added |-> <<>>, deleted |-> <<>>],
     index_runs |-> <<>>, run_reports |-> {}]

RECURSIVE aggregate_diff_data(_, _)
aggregate_diff_data(root, all_diffs) ==
    IF Len(all_diffs) = 0 THEN [NoAggregate EXCEPT !.ran = TRUE]
    ELSE LET acc == aggregate_diff_data(root, SubSeq(all_diffs, 1, Len(all_diffs) - 1))
             timestamp == all_diffs[Len(all_diffs)]
             df == read_diff_data(root.dirs[timestamp].diff_csv)
             new_count == CountStatus(df, "new")
             deleted_count == CountStatus(df, "deleted")
             \* datetime.fromtimestamp(int(timestamp)).strftime('%Y-%m-%d %H:%M:%S')
             formatted_timestamp == <<"%Y-%m-%d %H:%M:%S", IntOf(timestamp)>>
             run_data == [timestamp |-> timestamp,
                          formatted_timestamp |-> formatted_timestamp,
                          new_count |-> new_count,
                          deleted_count |-> deleted_count,
                          has_changes |-> (new_count > 0 \/ deleted_count > 0)]
         IN [acc EXCEPT
                !.runs = Append(@, run_data),
                !.total_added = @ + new_count,
                !.total_deleted = @ + deleted_count,
                !.chart_data = [timestamps |-> Append(@.timestamps, formatted_timestamp),
                                added |-> Append(@.added, new_count),
                                deleted |-> Append(@.deleted, deleted_count)]]

Reversed(seq) == [i \in 1..Len(seq) |-> seq[Len(seq) + 1 - i]]

\* the context generate_index_report renders: runs most recent first
generate_index_report(data) == [data EXCEPT !.index_runs = Reversed(data.runs)]

\* f"report_{timestamp}.html"
report_name(timestamp) == <<"r", "e", "p", "o", "r", "t", "_">> \o timestamp
                              \o <<".", "h", "t", "m", "l">>

\* the page generate_run_report writes for a run directory, None for a frame without rows
generate_run_report(timestamp, df) ==
    IF Len(df.rows) = 0 THEN None ELSE report_name(timestamp)

\* only the new rows looked at
run_report_wanted_new(df) == CountStatus(df, "new") > 0

\* main()'s test before it calls generate_run_report: len(df) > 0
run_report_wanted(df) == Len(df.rows) > 0

\* the detail pages main()'s loop over all_diffs writes into the output directory
run_reports(root, all_diffs) ==
    {generate_run_report(all_diffs[i], read_diff_data(root.dirs[all_diffs[i]].diff_csv)) :
        i \in {j \in 1..Len(all_diffs) :
                  run_report_wanted(read_diff_data(root.dirs[all_diffs[j]].diff_csv))}}
    \ {None}

\* the href targets of the rendered index: a row links report_<timestamp>.html when
\* run.has_changes, and shows "No changes" otherwise
index_links(data) ==
    {report_name(data.index_runs[i].timestamp) :
        i \in {j \in 1..Len(data.index_runs) : data.index_runs[j].has_changes}}

(***************************************************************************)
(* The crawler's main(), one run at a time, and the reporter's main().     *)
(***************************************************************************)
NoConfig == [timestamp |-> None]
NoCall == [fn |-> "none"]
NoResult == [done |-> FALSE]

SysInit ==
    /\ clock = EpochStart
    /\ domain_dir = NoSiteRoot
    /\ pc = "idle"
    /\ config = NoConfig
    /\ url_map = <<>>
    /\ history = <<>>
    /\ aggregate_data = NoAggregate

Init == SysInit /\ call = NoCall /\ result = NoResult

RunRecord(timestamp, exit_code, raised, wrote_urls, diff_writes, latest_prev) ==
    [timestamp |-> timestamp, exit_code |-> exit_code, raised |-> raised,
     wrote_urls |-> wrote_urls, diff_writes |-> diff_writes, latest_prev |-> latest_prev]

\* what main()'s try block may raise: sys.exit(code) raises SystemExit, which derives
\* from BaseException; the crawl and the file writes raise subclasses of Exception
SystemExit(code) == [class |-> "SystemExit", code |-> code]
RequestException == [class |-> "RequestException", code |-> None]
OSError == [class |-> "OSError", code |-> None]
IsException(exc) == exc.class \in {"RequestException", "OSError"}

\* a handler that swallows SystemExit, after which main() returns normally
main_exit_code_swallowed(exc) == IF IsException(exc) THEN 1 ELSE 0

\* the exit status of main() when its try block raises exc: "except Exception" logs
\* and calls sys.exit(1); anything else leaves main() as it is, a SystemExit with
\* its own code
main_exit_code(exc) == IF IsException(exc) THEN 1 ELSE exc.code

\* main() up to the crawl, for a site URL that validate_url accepts: the timestamp is
\* read off the clock, which does not run backwards between runs (two runs may fall
\* in the same second), and both directories are made
StartRun ==
    /\ pc = "idle"
    /\ Len(history) < MaxRuns
    /\ \E now \in clock..(EpochStart + ClockSpan) :
        /\ clock' = now
        /\ config' = [timestamp |-> ToStr(now)]
        /\ domain_dir' = Mkdir(domain_dir, ToStr(now))
    /\ pc' = "crawl"
    /\ url_map' = <<>>
    /\ aggregate_data' = NoAggregate
    /\ UNCHANGED <<history, call, result>>

\* exc raised inside main()'s try block: the process ends
ExitRun(exc, wrote_urls) ==
    /\ pc' = "idle"
    /\ history' = Append(history, RunRecord(config.timestamp, main_exit_code(exc),
                                            exc.class, wrote_urls, 0, None))
    /\ config' = NoConfig
    /\ url_map' = <<>>

\* the crawl raises (network), caught at the end of main(): exit 1
CrawlRaises ==
    /\ pc = "crawl"
    /\ ExitRun(RequestException, FALSE)
    /\ UNCHANGED <<clock, domain_dir, aggregate_data, call, result>>

\* get_sitemap_nodes returns no node: "No sitemaps found", exit 1
NoSitemapsFound ==
    /\ pc = "crawl"
    /\ ExitRun(SystemExit(1), FALSE)
    /\ UNCHANGED <<clock, domain_dir, aggregate_data, call, result>>

\* the nodes list no page: "No URLs found in sitemaps", exit 1
NoUrlsFound ==
    /\ pc = "crawl"
    /\ \E nodes \in NodeLists : Len(nodes) > 0 /\ extract_url_map(nodes) = <<>>
    /\ ExitRun(SystemExit(1), FALSE)
    /\ UNCHANGED <<clock, domain_dir, aggregate_data, call, result>>

\* the crawl finds pages and urls.csv is written
SaveUrlsCsv ==
    /\ pc = "crawl"
    /\ \E nodes \in NodeLists :
        /\ Len(nodes) > 0
        /\ extract_url_map(nodes) # <<>>
        /\ url_map' = extract_url_map(nodes)
        /\ domain_dir' = WriteFile(domain_dir, config.timestamp, "urls_csv",
                                   save_urls_csv(extract_url_map(nodes)))
    /\ pc' = "diff"
    /\ UNCHANGED <<clock, config, history, aggregate_data, call, result>>

\* to_csv opens urls.csv and the write raises OSError: a zero-byte file, exit 1
SaveUrlsCsvFails ==
    /\ pc = "crawl"
    /\ domain_dir' = WriteFile(domain_dir, config.timestamp, "urls_csv", EmptyFile)
    /\ ExitRun(OSError, FALSE)
    /\ UNCHANGED <<clock, aggregate_data, call, result>>

\* process_diff, and main()'s "Done."
ProcessDiff ==
    /\ pc = "diff"
    /\ \E listing \in Orders(Subdirs(domain_dir)) :
        LET latest_prev == find_latest_previous_run(listing, config.timestamp)
        IN IF latest_prev = None \/ ~ domain_dir.dirs[latest_prev].urls_csv.exists
           THEN /\ domain_dir' = domain_dir
                /\ history' = Append(history,
                                     RunRecord(config.timestamp, 0, None, TRUE, 0, latest_prev))
           ELSE LET current_urls == Keys(url_map)
                    prev_urls == load_previous_urls(domain_dir.dirs[latest_prev].urls_csv)
                    url_diff == find_url_differences(current_urls, prev_urls)
                IN \E new_iter \in Orders(url_diff.new_urls),
                      deleted_iter \in Orders(url_diff.deleted_urls) :
                        /\ domain_dir' = WriteFile(domain_dir, config.timestamp, "diff_csv",
                                            save_diff_csv(new_iter, deleted_iter,
                                                          latest_prev, config.timestamp))
                        /\ history' = Append(history,
                                        RunRecord(config.timestamp, 0, None, TRUE, 1, latest_prev))
    /\ pc' = "idle"
    /\ config' = NoConfig
    /\ url_map' = <<>>
    /\ UNCHANGED <<clock, aggregate_data, call, result>>

\* the reporter's main() on an existing site root: the reports directory, then the
\* aggregate, then the detail pages, then the index; without any diff.csv it exits
\* after making the directory
Report ==
    /\ pc = "idle"
    /\ domain_dir.exists
    /\ domain_dir' = Mkdir(domain_dir, ReportsDir)
    /\ \E listing \in Orders(Subdirs(domain_dir')) :
        LET all_diffs == find_all_diffs(domain_dir', listing)
        IN aggregate_data' =
            IF Len(all_diffs) = 0 THEN NoAggregate
            ELSE [generate_index_report(aggregate_diff_data(domain_dir', all_diffs))
                    EXCEPT !.run_reports = run_reports(domain_dir', all_diffs)]
    /\ UNCHANGED <<clock, pc, config, url_map, history, call, result>>

Next ==
    \/ StartRun
    \/ CrawlRaises
    \/ NoSitemapsFound
    \/ NoUrlsFound
    \/ SaveUrlsCsv
    \/ SaveUrlsCsvFails
    \/ ProcessDiff
    \/ Report

Spec == Init /\ [][Next]_vars

(***************************************************************************)
(* Functions applied on their own, to arguments drawn from bounded sets.   *)
(***************************************************************************)
MaxDirs == 4         \* subdirectories of a site root handed to the run store

Str100 == <<"1", "0", "0">>
Str200 == <<"2", "0", "0">>
Str300 == <<"3", "0", "0">>
DirNames ==
    {Str100, Str200, Str300, <<"9", "9">>, <<"0", "3", "0", "0">>, <<"-", "5">>,
     <<"a", "b", "c">>, ReportsDir}

SysFrozen == UNCHANGED <<clock, domain_dir, pc, config, url_map, history, aggregate_data>>

\* find_url_differences(current_urls, prev_urls) on arbitrary sets
DiffInit ==
    /\ SysInit
    /\ call \in [fn : {"find_url_differences"},
                 current_urls : SUBSET PageUrls, prev_urls : SUBSET PageUrls]
    /\ result = NoResult

CallFindUrlDifferences ==
    /\ call.fn = "find_url_differences"
    /\ ~ result.done
    /\ result' = [done |-> TRUE,
                  value |-> find_url_differences(call.current_urls, call.prev_urls)]
    /\ call' = call      \* set.__sub__ builds new sets; the arguments are read only
    /\ SysFrozen

SpecDiff == DiffInit /\ [][CallFindUrlDifferences]_vars

\* find_latest_previous_run(domain_dir, timestamp) on arbitrary site roots
RunStoreInit ==
    /\ SysInit
    /\ \E S \in SUBSET DirNames :
        /\ Cardinality(S) <= MaxDirs
        /\ call \in [fn : {"find_latest_previous_run"},
                     listing : Orders(S), timestamp : {Str300, Str100}]
    /\ result = NoResult

CallFindLatestPreviousRun ==
    /\ call.fn = "find_latest_previous_run"
    /\ ~ result.done
    /\ result' = [done |-> TRUE,
                  value |-> find_latest_previous_run(call.listing, call.timestamp)]
    /\ call' = call
    /\ SysFrozen

SpecRunStore == RunStoreInit /\ [][CallFindLatestPreviousRun]_vars

\* save_diff_csv on one UrlDiff, written twice; each write iterates the sets in
\* an order of its own
SaveDiffInit ==
    /\ SysInit
    /\ \E new_urls \in SUBSET PageUrls :
        \E deleted_urls \in SUBSET (PageUrls \ new_urls) :
            call \in [fn : {"save_diff_csv"},
                      new_iter : Orders(new_urls), deleted_iter : Orders(deleted_urls),
                      new_iter2 : Orders(new_urls), deleted_iter2 : Orders(deleted_urls),
                      prev_timestamp : {ToStr(EpochStart)},
                      current_timestamp : {ToStr(EpochStart + 1)}]
    /\ result = NoResult

CallSaveDiffCsv ==
    /\ call.fn = "save_diff_csv"
    /\ ~ result.done
    /\ result' = [done |-> TRUE,
                  first |-> save_diff_csv(call.new_iter, call.deleted_iter,
                                          call.prev_timestamp, call.current_timestamp),
                  second |-> save_diff_csv(call.new_iter2, call.deleted_iter2,
                                           call.prev_timestamp, call.current_timestamp)]
    /\ call' = call
    /\ SysFrozen

SpecSaveDiff == SaveDiffInit /\ [][CallSaveDiffCsv]_vars

(***************************************************************************)
(* The claims.                                                             *)
(***************************************************************************)
Last(seq) == seq[Len(seq)]

\* C1: find_url_differences(A, B) returns new_urls = A \ B and deleted_urls = B \ A:
\* a URL is new exactly when it is in A and not in B, deleted exactly when it is in B
\* and not in A; so diff(A, A) is empty twice and diff(A, {}) is (A, {}); the call
\* is defined on every pair of sets and leaves its arguments as they were.
C1_SetDifference ==
    /\ ~ result.done => ENABLED CallFindUrlDifferences
    /\ result.done =>
        LET A == call.current_urls
            B == call.prev_urls
            d == result.value
        IN /\ \A u \in PageUrls : u \in d.new_urls <=> (u \in A /\ u \notin B)
           /\ \A u \in PageUrls : u \in d.deleted_urls <=> (u \in B /\ u \notin A)
           /\ d.new_urls \subseteq PageUrls /\ d.deleted_urls \subseteq PageUrls
           /\ A = B => d.new_urls = {} /\ d.deleted_urls = {}
           /\ B = {} => d.new_urls = A /\ d.deleted_urls = {}

C1_Witness ==
    /\ result.done
    /\ result.value.new_urls # {}
    /\ result.value.deleted_urls # {}
    /\ call.current_urls \cap call.prev_urls # {}

\* C2: find_latest_previous_run returns a subdirectory whose name parses as an integer
\* and differs from the current timestamp, and no other such subdirectory has a larger
\* integer value; names that do not parse are skipped; the result is None exactly when
\* there is no such subdirectory.
Candidates(listing, timestamp) ==
    {d \in Range(listing) : ParseInt(d).ok /\ d # timestamp}

C2_LatestPreviousRun ==
    result.done =>
        LET cands == Candidates(call.listing, call.timestamp)
        IN /\ result.value = None <=> cands = {}
           /\ cands # {} =>
                /\ result.value \in cands
                /\ \A c \in cands : IntOf(c) <= IntOf(result.value)

\* the spec's example: {100, 200, abc, 300} with current 300 resolves to 200
C2_Witness ==
    /\ result.done
    /\ Range(call.listing) = {Str100, Str200, <<"a", "b", "c">>, Str300}
    /\ call.timestamp = Str300
    /\ result.value = Str200

\* C7: the rows save_diff_csv writes are the new URLs in ascending order, each once,
\* then the deleted URLs in ascending order, each once; writing the same diff again,
\* the sets iterated in another order, gives the same rows.
RowsNewThenDeleted(rows, new_urls, deleted_urls) ==
    LET k == Cardinality(new_urls)
    IN /\ Len(rows) = k + Cardinality(deleted_urls)
       /\ \A i \in 1..Len(rows) : rows[i][1] = IF i <= k THEN "new" ELSE "deleted"
       /\ {rows[i][2] : i \in 1..k} = new_urls
       /\ {rows[i][2] : i \in (k + 1)..Len(rows)} = deleted_urls
       /\ \A i \in 1..(Len(rows) - 1) : i # k => StrLess(rows[i][2], rows[i + 1][2])

C7_DiffRowsSorted ==
    result.done =>
        /\ result.first.header = DiffHeader
        /\ RowsNewThenDeleted(result.first.rows, Range(call.new_iter), Range(call.deleted_iter))
        /\ result.second.rows = result.first.rows

\* both groups are iterated out of order, and differently the second time
C7_Witness ==
    /\ result.done
    /\ Len(call.new_iter) + Len(call.deleted_iter) = 3
    /\ \/ Len(call.new_iter) = 2 /\ StrLess(call.new_iter[2], call.new_iter[1])
       \/ Len(call.deleted_iter) = 2 /\ StrLess(call.deleted_iter[2], call.deleted_iter[1])
    /\ call.new_iter2 # call.new_iter \/ call.deleted_iter2 # call.deleted_iter

(***************************************************************************)
(* Claims about whole runs.                                                *)
(***************************************************************************)
Parseable(file) == file.exists /\ HasColumn(file, "url")
RunDirs(root) == {d \in Subdirs(root) : ParseInt(d).ok}

\* the other run directory with the largest timestamp, when there is one
OtherRuns(root, timestamp) == {d \in RunDirs(root) : d # timestamp}
IsLatestOther(root, timestamp, m) ==
    m \in OtherRuns(root, timestamp)
    /\ \A o \in OtherRuns(root, timestamp) : IntOf(o) <= IntOf(m)

\* there is a latest other run and it holds a urls.csv
Comparable(root, timestamp) ==
    \E m \in OtherRuns(root, timestamp) :
        IsLatestOther(root, timestamp, m) /\ root.dirs[m].urls_csv.exists

\* the first column of a urls.csv, as a set
UrlColumn(file) == {file.rows[i][1] : i \in 1..Len(file.rows)}

\* the (status, url) pairs of a diff file's rows
StatusUrlPairs(file) == {<<file.rows[i][1], file.rows[i][2]>> : i \in 1..Len(file.rows)}
NoRowTwice(file) ==
    \A i, j \in 1..Len(file.rows) :
        (file.rows[i][1] = file.rows[j][1] /\ file.rows[i][2] = file.rows[j][2]) => i = j

\* C3: when the previous run's urls.csv exists but cannot be parsed, the run that has
\* just finished without error wrote no diff.csv (as stated; the code writes one, with
\* every current URL as new).
C3_CorruptHistorySkipsDiff ==
    (pc = "idle" /\ Len(history) > 0) =>
        LET r == Last(history)
        IN (/\ r.exit_code = 0
            /\ r.latest_prev # None
            /\ domain_dir.dirs[r.latest_prev].urls_csv.exists
            /\ ~ Parseable(domain_dir.dirs[r.latest_prev].urls_csv))
           => r.diff_writes = 0

\* C4: when process_diff runs with no other run directory, or with the latest other
\* run directory holding no urls.csv, it writes nothing (no diff.csv, no use of an
\* older run), and the run ends with exit code 0 and its own urls.csv in place.
C4_NoPreviousNoDiff ==
    [][(pc = "diff" /\ ~ Comparable(domain_dir, config.timestamp)) =>
        /\ domain_dir' = domain_dir
        /\ pc' = "idle"
        /\ Len(history') = Len(history) + 1
        /\ Last(history').exit_code = 0
        /\ Last(history').diff_writes = 0
        /\ Parseable(domain_dir'.dirs[config.timestamp].urls_csv)
        /\ Len(domain_dir'.dirs[config.timestamp].urls_csv.rows) > 0]_vars

\* the run skipped the diff although an older run directory holds a urls.csv
C4_Witness ==
    /\ pc = "idle"
    /\ Len(history) > 0
    /\ Last(history).exit_code = 0
    /\ Last(history).diff_writes = 0
    /\ Last(history).latest_prev # None
    /\ ~ domain_dir.dirs[Last(history).timestamp].diff_csv.exists
    /\ \E o \in OtherRuns(domain_dir, Last(history).timestamp) :
        o # Last(history).latest_prev /\ Parseable(domain_dir.dirs[o].urls_csv)

\* C5 as stated: every run after the first that persisted its urls.csv persisted
\* exactly one diff.csv.
C5_EveryLaterRunHasDiff ==
    \A i \in 2..Len(history) : history[i].wrote_urls => history[i].diff_writes = 1

\* C5 amended: a run that persisted its urls.csv persists exactly one diff.csv, in its
\* own run directory, when another run directory exists and the one with the largest
\* timestamp holds a urls.csv; otherwise it persists none.
C5_DiffIffComparable ==
    [][(pc = "diff" /\ pc' = "idle") =>
        LET r == Last(history')
            own == config.timestamp
        IN /\ r.wrote_urls
           /\ r.timestamp = own
           /\ r.diff_writes = IF Comparable(domain_dir, own) THEN 1 ELSE 0
           /\ \A d \in Subdirs(domain_dir) : d # own => domain_dir'.dirs[d] = domain_dir.dirs[d]
           /\ domain_dir'.dirs[own].urls_csv = domain_dir.dirs[own].urls_csv
           /\ r.diff_writes = 1 => domain_dir'.dirs[own].diff_csv.exists
           /\ r.diff_writes = 0 =>
                domain_dir'.dirs[own].diff_csv = domain_dir.dirs[own].diff_csv]_vars

\* among the runs after the first, one without a diff and one with a diff
C5_Witness ==
    /\ pc = "idle"
    /\ \E i, j \in 2..Len(history) :
        /\ history[i].wrote_urls /\ history[i].diff_writes = 1
        /\ history[j].wrote_urls /\ history[j].diff_writes = 0
        /\ ~ domain_dir.dirs[history[j].timestamp].diff_csv.exists

\* C6: with exactly two run directories T1 < T2, both holding the urls.csv of a
\* successful crawl (URL sets U1 and U2), and the run at T2 finished, the diff.csv at T2
\* holds one "new" row per URL of U2 \ U1, one "deleted" row per URL of U1 \ U2, and
\* nothing else.
TwoCrawls(t1, t2) ==
    /\ pc = "idle"
    /\ RunDirs(domain_dir) = {t1, t2}
    /\ IntOf(t1) < IntOf(t2)
    /\ Parseable(domain_dir.dirs[t1].urls_csv)
    /\ Parseable(domain_dir.dirs[t2].urls_csv)

C6_DiffOfTwoCrawls ==
    \A t1, t2 \in RunDirs(domain_dir) :
        TwoCrawls(t1, t2) =>
            LET U1 == UrlColumn(domain_dir.dirs[t1].urls_csv)
                U2 == UrlColumn(domain_dir.dirs[t2].urls_csv)
                diff == domain_dir.dirs[t2].diff_csv
            IN /\ diff.exists
               /\ diff.header = DiffHeader
               /\ NoRowTwice(diff)
               /\ StatusUrlPairs(diff) =
                    {<<"new", u>> : u \in U2 \ U1} \cup {<<"deleted", u>> : u \in U1 \ U2}

\* the spec's example: {P1, P2} then {P2, P3} gives new P3 and deleted P1
C6_Witness ==
    \E t1, t2 \in RunDirs(domain_dir) :
        /\ TwoCrawls(t1, t2)
        /\ UrlColumn(domain_dir.dirs[t1].urls_csv) = {Page(1), Page(2)}
        /\ UrlColumn(domain_dir.dirs[t2].urls_csv) = {Page(2), Page(3)}
        /\ StatusUrlPairs(domain_dir.dirs[t2].diff_csv) =
                {<<"new", Page(3)>>, <<"deleted", Page(1)>>}

(***************************************************************************)
(* Claims about the reporter.                                              *)
(***************************************************************************)
DiffedDirs(root) == {d \in Subdirs(root) : root.dirs[d].diff_csv.exists}
RowsWithStatus(file, status) ==
    Cardinality({i \in 1..Len(file.rows) : file.rows[i][1] = status})

RECURSIVE SumSeq(_)
SumSeq(seq) == IF Len(seq) = 0 THEN 0 ELSE seq[1] + SumSeq(Tail(seq))

\* C8: every diff.csv carries the header, also with zero rows; a run compared against
\* a previous run with the same URLs leaves a diff.csv of the header and no rows; the
\* runs of the aggregate are exactly the subdirectories holding a diff.csv, a zero-row
\* diff counted as 0 new and 0 deleted, a directory without diff.csv not listed.
C8_DiffedVersusNeverDiffed ==
    /\ \A d \in DiffedDirs(domain_dir) : domain_dir.dirs[d].diff_csv.header = DiffHeader
    /\ (pc = "idle" /\ Len(history) > 0 /\ Last(history).exit_code = 0) =>
        \A m \in OtherRuns(domain_dir, Last(history).timestamp) :
            (/\ IsLatestOther(domain_dir, Last(history).timestamp, m)
             /\ Parseable(domain_dir.dirs[m].urls_csv)
             /\ UrlColumn(domain_dir.dirs[m].urls_csv) =
                    UrlColumn(domain_dir.dirs[Last(history).timestamp].urls_csv))
            => domain_dir.dirs[Last(history).timestamp].diff_csv = CsvFile(DiffHeader, <<>>)
    /\ aggregate_data.ran =>
        LET runs == aggregate_data.runs
        IN /\ {runs[i].timestamp : i \in 1..Len(runs)} = DiffedDirs(domain_dir)
           /\ Len(runs) = Cardinality(DiffedDirs(domain_dir))
           /\ \A i \in 1..Len(runs) :
                Len(domain_dir.dirs[runs[i].timestamp].diff_csv.rows) = 0 =>
                    /\ runs[i].new_count = 0
                    /\ runs[i].deleted_count = 0
                    /\ ~ runs[i].has_changes

\* the aggregate lists a run without changes, and a run directory without diff.csv
\* is on disk beside it
C8_Witness ==
    /\ aggregate_data.ran
    /\ \E i \in 1..Len(aggregate_data.runs) :
        /\ aggregate_data.runs[i].new_count = 0
        /\ aggregate_data.runs[i].deleted_count = 0
        /\ domain_dir.dirs[aggregate_data.runs[i].timestamp].diff_csv = CsvFile(DiffHeader, <<>>)
    /\ \E d \in RunDirs(domain_dir) :
        Parseable(domain_dir.dirs[d].urls_csv) /\ ~ domain_dir.dirs[d].diff_csv.exists

\* C9: aggregate_diff_data returns one run entry and one chart point per directory with
\* a diff file; an entry's new_count and deleted_count are the numbers of new and of
\* deleted rows of that diff; total_added and total_deleted are the sums over the entries.
C9_AggregateCounts ==
    aggregate_data.ran =>
        LET runs == aggregate_data.runs
            chart == aggregate_data.chart_data
            n == Cardinality(DiffedDirs(domain_dir))
        IN /\ Len(runs) = n
           /\ Len(chart.timestamps) = n /\ Len(chart.added) = n /\ Len(chart.deleted) = n
           /\ \A i, j \in 1..Len(runs) : runs[i].timestamp = runs[j].timestamp => i = j
           /\ \A i \in 1..Len(runs) :
                LET diff == domain_dir.dirs[runs[i].timestamp].diff_csv
                IN /\ diff.exists
                   /\ runs[i].new_count = RowsWithStatus(diff, "new")
                   /\ runs[i].deleted_count = RowsWithStatus(diff, "deleted")
                   /\ chart.added[i] = runs[i].new_count
                   /\ chart.deleted[i] = runs[i].deleted_count
                   /\ chart.timestamps[i] = runs[i].formatted_timestamp
           /\ aggregate_data.total_added = SumSeq(chart.added)
           /\ aggregate_data.total_deleted = SumSeq(chart.deleted)

\* two diffs, one of them without rows, and both totals positive
C9_Witness ==
    /\ aggregate_data.ran
    /\ Len(aggregate_data.runs) = 2
    /\ \E i \in 1..2 : ~ aggregate_data.runs[i].has_changes
    /\ \E i \in 1..2 :
        aggregate_data.runs[i].new_count > 0 /\ aggregate_data.runs[i].deleted_count > 0
    /\ aggregate_data.total_added > 0
    /\ aggregate_data.total_deleted > 0

\* C10 as stated: the chart series lists the runs in ascending order of their integer
\* timestamp, and the index lists the same runs in descending order.
C10_ChartAscendingIndexDescending ==
    aggregate_data.ran =>
        LET runs == aggregate_data.runs
            chart == aggregate_data.chart_data
            index == aggregate_data.index_runs
        IN /\ \A i, j \in 1..Len(runs) :
                i < j => /\ IntOf(runs[i].timestamp) < IntOf(runs[j].timestamp)
                         /\ chart.timestamps[i][2] < chart.timestamps[j][2]
           /\ {index[i] : i \in 1..Len(index)} = {runs[i] : i \in 1..Len(runs)}
           /\ \A i, j \in 1..Len(index) :
                i < j => IntOf(index[i].timestamp) > IntOf(index[j].timestamp)

\* C11: in a report generation a detail page report_<timestamp>.html is written for a
\* run exactly when the run's diff has a new or a deleted row, which is when its entry
\* has has_changes; the index links exactly the pages written, and a run without
\* changes has no link and no page.
C11_DetailPageIffChanges ==
    aggregate_data.ran =>
        LET runs == aggregate_data.runs
            changed == {i \in 1..Len(runs) :
                          LET diff == domain_dir.dirs[runs[i].timestamp].diff_csv
                          IN RowsWithStatus(diff, "new") > 0 \/ RowsWithStatus(diff, "deleted") > 0}
        IN /\ \A i \in 1..Len(runs) : runs[i].has_changes <=> i \in changed
           /\ aggregate_data.run_reports = {report_name(runs[i].timestamp) : i \in changed}
           /\ index_links(aggregate_data) = aggregate_data.run_reports
           /\ \A i \in 1..Len(aggregate_data.index_runs) :
                ~ aggregate_data.index_runs[i].has_changes =>
                    report_name(aggregate_data.index_runs[i].timestamp)
                        \notin aggregate_data.run_reports

\* one generation lists a run with deleted rows only, which has a page, and a run
\* without changes, which has none
C11_Witness ==
    /\ aggregate_data.ran
    /\ \E i, j \in 1..Len(aggregate_data.runs) :
        /\ aggregate_data.runs[i].new_count = 0
        /\ aggregate_data.runs[i].deleted_count > 0
        /\ report_name(aggregate_data.runs[i].timestamp) \in aggregate_data.run_reports
        /\ ~ aggregate_data.runs[j].has_changes
        /\ report_name(aggregate_data.runs[j].timestamp) \notin aggregate_data.run_reports

(***************************************************************************)
(* Claims about the run directories and the exits of the crawler.          *)
(***************************************************************************)
\* C12: every run creates a run directory that did not exist before, and no step of a
\* later run changes urls.csv or diff.csv in the directory of a run that has ended.
C12_RunDirectoryImmutable ==
    [][/\ (pc = "idle" /\ pc' = "crawl") => config'.timestamp \notin Subdirs(domain_dir)
       /\ \A i \in 1..Len(history) :
            /\ history[i].timestamp \in Subdirs(domain_dir')
            /\ domain_dir'.dirs[history[i].timestamp].urls_csv =
                    domain_dir.dirs[history[i].timestamp].urls_csv
            /\ domain_dir'.dirs[history[i].timestamp].diff_csv =
                    domain_dir.dirs[history[i].timestamp].diff_csv]_vars

\* C13: a run whose crawl yields no sitemap node, or whose nodes list no page, ends by
\* sys.exit(1): the exit status is non-zero although main() has a handler for
\* Exception, and from its start to its end the run writes no urls.csv and no diff.csv
\* (its start only makes directories, its end changes nothing on disk).
C13_EmptyCrawlStops ==
    [][/\ (pc = "idle" /\ pc' = "crawl") =>
            \A d \in Subdirs(domain_dir') :
                domain_dir'.dirs[d] = IF d \in Subdirs(domain_dir) THEN domain_dir.dirs[d]
                                      ELSE EmptyDir
       /\ (pc = "crawl" /\ pc' = "idle" /\ Last(history').raised = "SystemExit") =>
            /\ Len(history') = Len(history) + 1
            /\ Last(history').timestamp = config.timestamp
            /\ Last(history').exit_code # 0
            /\ ~ Last(history').wrote_urls
            /\ Last(history').diff_writes = 0
            /\ domain_dir' = domain_dir]_vars

\* a run has ended by sys.exit(1) with status 1, and its directory holds neither file
C13_Witness ==
    /\ pc = "idle"
    /\ Len(history) > 0
    /\ Last(history).raised = "SystemExit"
    /\ Last(history).exit_code = 1
    /\ ~ domain_dir.dirs[Last(history).timestamp].urls_csv.exists
    /\ ~ domain_dir.dirs[Last(history).timestamp].diff_csv.exists

(***************************************************************************)
(* Site URLs: validate_url, urlparse, tldextract and the site root's name. *)
(***************************************************************************)
Http == <<"h", "t", "t", "p", ":", "/", "/">>
Https == <<"h", "t", "t", "p", "s", ":", "/", "/">>

StartsWith(s, prefix) == Len(s) >= Len(prefix) /\ SubSeq(s, 1, Len(prefix)) = prefix
Contains(s, c) == \E i \in 1..Len(s) : s[i] = c
HasSubstring(s, sub) ==
    \E i \in 1..Len(s) : i + Len(sub) - 1 <= Len(s) /\ SubSeq(s, i, i + Len(sub) - 1) = sub

\* s.split(sep) for a separator of one character
RECURSIVE Split(_, _)
Split(s, sep) ==
    IF ~ Contains(s, sep) THEN <<s>>
    ELSE LET i == CHOOSE k \in 1..Len(s) : s[k] = sep /\ \A j \in 1..(k - 1) : s[j] # sep
         IN <<SubSeq(s, 1, i - 1)>> \o Split(SubSeq(s, i + 1, Len(s)), sep)

\* urlparse(url) of a url that starts with http:// or https://: the netloc runs from
\* behind the two slashes to the first of / ? #, and a netloc with one square bracket
\* but not the other raises ValueError
urlparse(url) ==
    LET scheme == IF StartsWith(url, Https) THEN <<"h", "t", "t", "p", "s">>
                  ELSE <<"h", "t", "t", "p">>
        rest == SubSeq(url, Len(scheme) + 4, Len(url))
        stops == {i \in 1..Len(rest) : rest[i] \in {"/", "?", "#"}}
        netloc == IF stops = {} THEN rest
                  ELSE SubSeq(rest, 1, (CHOOSE i \in stops : \A j \in stops : i <= j) - 1)
    IN [ok |-> (Contains(netloc, "[") <=> Contains(netloc, "]")),
        scheme |-> scheme, netloc |-> netloc]

\* the same function in differ.py and in reporter.py, which differ in how they log
validate_url(url) ==
    IF Len(url) = 0 THEN FALSE
    ELSE IF ~ (StartsWith(url, Http) \/ StartsWith(url, Https)) THEN FALSE
    ELSE IF ~ urlparse(url).ok THEN FALSE
    ELSE LET netloc == urlparse(url).netloc
             domain_parts == Split(netloc, ".")
         IN IF Len(netloc) = 0 THEN FALSE
            ELSE IF ~ Contains(netloc, ".") THEN FALSE
            ELSE IF Len(domain_parts[Len(domain_parts)]) = 0 THEN FALSE
            ELSE IF netloc[1] = "." \/ HasSubstring(netloc, <<".", ".">>) THEN FALSE
            ELSE TRUE

\* labels joined by dots
RECURSIVE JoinDots(_)
JoinDots(labels) ==
    IF Len(labels) = 0 THEN <<>>
    ELSE IF Len(labels) = 1 THEN labels[1]
    ELSE labels[1] \o <<".">> \o JoinDots(Tail(labels))

Com == <<"c", "o", "m">>
Org == <<"o", "r", "g">>
PublicSuffixes == {Com, Org}

\* tldextract.extract on a host name: suffix the public suffix, domain the label left
\* of it, subdomain the rest; a host without a known suffix has suffix '' and its
\* last label as the domain
tldextract_extract(netloc) ==
    LET labels == Split(netloc, ".")
        n == Len(labels)
    IN IF labels[n] \in PublicSuffixes
       THEN [subdomain |-> JoinDots(SubSeq(labels, 1, n - 2)),
             domain |-> IF n >= 2 THEN labels[n - 1] ELSE <<>>,
             suffix |-> labels[n]]
       ELSE [subdomain |-> JoinDots(SubSeq(labels, 1, n - 1)),
             domain |-> labels[n], suffix |-> <<>>]

\* setup_site_config(url).domain_dir, the site root the crawler writes
setup_site_config(url) ==
    LET ext == tldextract_extract(urlparse(url).netloc)
    IN IF Len(ext.subdomain) > 0
       THEN ext.subdomain \o <<".">> \o ext.domain \o <<".">> \o ext.suffix
       ELSE ext.domain \o <<".">> \o ext.suffix

\* setup_domain_dir(url), the site root the reporter reads
setup_domain_dir(url) ==
    LET ext == tldextract_extract(urlparse(url).netloc)
    IN ext.domain \o <<".">> \o ext.suffix

MaxSubLabels == 1    \* labels a host may carry left of its registered domain
SubLabels == {<<"w", "w", "w">>, <<"m">>}
DomainLabels == {<<"a">>, <<"b">>}
Hosts ==
    {JoinDots(sub \o <<d, sfx>>) :
        sub \in UNION {[1..n -> SubLabels] : n \in 0..MaxSubLabels},
        d \in DomainLabels, sfx \in PublicSuffixes}
SiteUrls == {scheme \o host \o path :
                scheme \in {Http, Https}, host \in Hosts, path \in {<<>>, <<"/">>}}

\* the crawler and the reporter given the same site, beside the crawler given another
SiteDirInit ==
    /\ SysInit
    /\ call \in [fn : {"site_root"}, site : SiteUrls, other : SiteUrls]
    /\ result = NoResult

CallSetupSiteDirs ==
    /\ call.fn = "site_root"
    /\ ~ result.done
    /\ result' = [done |-> TRUE,
                  crawler_dir |-> setup_site_config(call.site),
                  reporter_dir |-> setup_domain_dir(call.site),
                  other_crawler_dir |-> setup_site_config(call.other),
                  other_reporter_dir |-> setup_domain_dir(call.other)]
    /\ call' = call
    /\ SysFrozen

SpecSiteDir == SiteDirInit /\ [][CallSetupSiteDirs]_vars

\* C14: for a site URL the reporter resolves the site root the crawler wrote, the
\* name built from domain and suffix with the subdomain in front when there is one;
\* two sites with distinct hosts never resolve to one directory.
C14_SameSiteRoot ==
    result.done =>
        /\ result.reporter_dir = result.crawler_dir
        /\ result.crawler_dir = urlparse(call.site).netloc
        /\ urlparse(call.site).netloc # urlparse(call.other).netloc =>
            /\ result.crawler_dir # result.other_crawler_dir
            /\ result.reporter_dir # result.other_reporter_dir

(***************************************************************************)
(* The entry of both programs: what main() does to the file system and the *)
(* network up to the crawl (differ.py) and up to the reports directory     *)
(* (reporter.py), as the sequence of its accesses.                         *)
(***************************************************************************)
Effect(op, path) == [op |-> op, path |-> path]

\* the directories made before the URL is looked at
differ_main_mkdir_first(site) ==
    IF ~ validate_url(site)
    THEN [done |-> TRUE, exit_code |-> 1, effects |-> <<Effect("mkdir", <<>>)>>]
    ELSE [done |-> TRUE, exit_code |-> None,
          effects |-> <<Effect("suffix_list", <<>>),
                        Effect("mkdir", setup_site_config(site)),
                        Effect("mkdir", setup_site_config(site) \o <<"/", "timestamp">>)>>]

\* differ.py main() up to its try block: validate_url, then setup_site_config (whose
\* tldextract call reads the public suffix list), then the two mkdir; exit_code None
\* stands for a process that goes on into the crawl
differ_main(site) ==
    IF ~ validate_url(site)
    THEN [done |-> TRUE, exit_code |-> 1, effects |-> <<>>]
    ELSE [done |-> TRUE, exit_code |-> None,
          effects |-> <<Effect("suffix_list", <<>>),
                        Effect("mkdir", setup_site_config(site)),
                        Effect("mkdir", setup_site_config(site) \o <<"/", "timestamp">>)>>]

\* reporter.py main() up to output_dir.mkdir: validate_url, then tldextract, then
\* setup_domain_dir, which exits 1 when the site root is not on disk
reporter_main(site, root_exists) ==
    IF ~ validate_url(site)
    THEN [done |-> TRUE, exit_code |-> 1, effects |-> <<>>]
    ELSE IF ~ root_exists
    THEN [done |-> TRUE, exit_code |-> 1,
          effects |-> <<Effect("suffix_list", <<>>),
                        Effect("exists", setup_domain_dir(site))>>]
    ELSE [done |-> TRUE, exit_code |-> None,
          effects |-> <<Effect("suffix_list", <<>>),
                        Effect("exists", setup_domain_dir(site)),
                        Effect("mkdir", setup_domain_dir(site) \o <<"/">> \o ReportsDir)>>]

\* command-line arguments, well formed and not
Schemes == {Http, Https, <<"f", "t", "p", ":", "/", "/">>, <<"h", "t", "t", "p", ":", "/">>, <<>>}
Netlocs ==
    {<<>>, <<"a">>, <<"a", ".">> \o Com, <<"a", ".">>, <<".", "a", ".">> \o Com,
     <<"a", ".", ".">> \o Com, <<"m", ".", "a", ".">> \o Com, <<"[", "a", ".">> \o Com}
UrlPaths == {<<>>, <<"/">>, <<"/", "x", ".", "y">>}
SiteArguments == {scheme \o netloc \o path :
                    scheme \in Schemes, netloc \in Netlocs, path \in UrlPaths}

MainInit ==
    /\ SysInit
    /\ call \in [fn : {"differ.main", "reporter.main"}, site : SiteArguments,
                 root_exists : BOOLEAN]
    /\ result = NoResult

CallDifferMain ==
    /\ call.fn = "differ.main"
    /\ ~ result.done
    /\ result' = differ_main(call.site)
    /\ call' = call
    /\ SysFrozen

CallReporterMain ==
    /\ call.fn = "reporter.main"
    /\ ~ result.done
    /\ result' = reporter_main(call.site, call.root_exists)
    /\ call' = call
    /\ SysFrozen

SpecMain == MainInit /\ [][CallDifferMain \/ CallReporterMain]_vars

\* C15: a site argument that validate_url refuses makes the crawler and the reporter
\* exit with status 1 before either has touched the file system or the network; an
\* argument it accepts is the only one for which they go on.
C15_InvalidUrlRejectedFirst ==
    result.done =>
        /\ ~ validate_url(call.site) => (result.exit_code = 1 /\ result.effects = <<>>)
        /\ result.effects # <<>> => validate_url(call.site)

\* both programs have turned down an argument with two dots in a row in its host,
\* which passes every check of validate_url but the last
C15_Witness ==
    /\ result.done
    /\ call.site = Https \o <<"a", ".", ".">> \o Com
    /\ ~ validate_url(call.site)
    /\ result.exit_code = 1
    /\ result.effects = <<>>

(***************************************************************************)
(* save_urls_csv and load_previous_urls, one after the other, on the maps  *)
(* extract_url_map builds from two sitemaps.                               *)
(***************************************************************************)
TwoSitemapLists ==
    {<<[url |-> SitemapUrl(1), pages |-> first], [url |-> SitemapUrl(2), pages |-> second]>> :
        first \in PageLists, second \in PageLists}
UrlMaps == {extract_url_map(nodes) : nodes \in TwoSitemapLists}

\* an urls.csv an earlier run of the same second left in the run directory
StaleUrlsCsv == CsvFile(UrlsHeader, <<<<Page(1), SitemapUrl(2)>>, <<Page(2), SitemapUrl(2)>>>>)

\* main() reaches save_urls_csv with a non-empty map only, in a directory that may hold
\* an urls.csv already; the empty map is handed over in a directory just made
RoundTripInit ==
    /\ SysInit
    /\ call \in [fn : {"save_urls_csv"}, url_map : UrlMaps, existing : {NoFile, StaleUrlsCsv}]
    /\ call.url_map = <<>> => call.existing = NoFile
    /\ result = NoResult

\* save_urls_csv(url_map, out_dir): returns without writing for an empty map
CallSaveUrlsCsv ==
    /\ call.fn = "save_urls_csv"
    /\ result = NoResult
    /\ result' = [done |-> FALSE,
                  urls_csv |-> IF call.url_map = <<>> THEN call.existing
                               ELSE save_urls_csv(call.url_map)]
    /\ call' = call
    /\ SysFrozen

\* load_previous_urls(out_dir / 'urls.csv')
CallLoadPreviousUrls ==
    /\ call.fn = "save_urls_csv"
    /\ result # NoResult
    /\ ~ result.done
    /\ result' = [done |-> TRUE, urls_csv |-> result.urls_csv,
                  value |-> load_previous_urls(result.urls_csv)]
    /\ call' = call
    /\ SysFrozen

SpecRoundTrip == RoundTripInit /\ [][CallSaveUrlsCsv \/ CallLoadPreviousUrls]_vars

MaxDownloads == 3    \* sitemap nodes handed to download_sitemaps

\* quote(url, safe=''): the slash and the colon are percent-encoded, letters, digits
\* and _ . - ~ stay
RECURSIVE quote(_)
quote(url) ==
    IF Len(url) = 0 THEN <<>>
    ELSE (IF url[1] = "/" THEN <<"%", "2", "F">>
          ELSE IF url[1] = ":" THEN <<"%", "3", "A">>
          ELSE <<url[1]>>) \o quote(Tail(url))

\* node k is sitemap s/k and lists page k or no page
DownloadLists ==
    UNION {{nodes \in [1..n -> [url : {SitemapUrl(k) : k \in 1..n},
                                pages : {<<>>} \cup {<<Page(k)>> : k \in 1..n}]] :
                \A k \in 1..n : /\ nodes[k].url = SitemapUrl(k)
                                /\ nodes[k].pages \in {<<>>, <<Page(k)>>}} :
           n \in 1..MaxDownloads}

\* download_sitemaps at its first line: errors = [], nothing requested, nothing logged
DownloadStart ==
    [done |-> FALSE, pc |-> "download", i |-> 1, attempts |-> <<>>, files |-> {},
     errors |-> <<>>, log |-> <<>>, raised |-> None, exit_code |-> None,
     urls_csv |-> NoFile]

\* the loop left at the first failure
download_attempt_break(r, nodes, response_ok) ==
    IF response_ok
    THEN [r EXCEPT !.attempts = Append(@, nodes[r.i].url),
                   !.files = @ \cup {quote(nodes[r.i].url)},
                   !.i = @ + 1]
    ELSE [r EXCEPT !.attempts = Append(@, nodes[r.i].url),
                   !.errors = Append(@, <<"Failed to download", nodes[r.i].url>>),
                   !.i = Len(nodes) + 1]

\* one turn of the loop over nodes: session.get(url), raise_for_status, write_bytes to
\* out_dir / quote(url); a requests.RequestException is kept in errors and the loop
\* goes on
download_attempt(r, nodes, response_ok) ==
    IF response_ok
    THEN [r EXCEPT !.attempts = Append(@, nodes[r.i].url),
                   !.files = @ \cup {quote(nodes[r.i].url)},
                   !.i = @ + 1]
    ELSE [r EXCEPT !.attempts = Append(@, nodes[r.i].url),
                   !.errors = Append(@, <<"Failed to download", nodes[r.i].url>>),
                   !.i = @ + 1]

DownloadInit ==
    /\ SysInit
    /\ call \in [fn : {"download_sitemaps"}, nodes : DownloadLists]
    /\ result = DownloadStart

DownloadSitemap ==
    /\ call.fn = "download_sitemaps"
    /\ result.pc = "download"
    /\ result.i <= Len(call.nodes)
    /\ result' = download_attempt(result, call.nodes, TRUE)
    /\ call' = call
    /\ SysFrozen

\* the request fails: connection error, timeout, or an HTTP error status
DownloadSitemapFails ==
    /\ call.fn = "download_sitemaps"
    /\ result.pc = "download"
    /\ result.i <= Len(call.nodes)
    /\ result' = download_attempt(result, call.nodes, FALSE)
    /\ call' = call
    /\ SysFrozen

\* write_bytes raises OSError, which download_sitemaps does not catch: main()'s
\* handler ends the run
DownloadWriteRaises ==
    /\ call.fn = "download_sitemaps"
    /\ result.pc = "download"
    /\ result.i <= Len(call.nodes)
    /\ result' = [result EXCEPT !.attempts = Append(@, call.nodes[result.i].url),
                                !.pc = "exit", !.done = TRUE, !.raised = OSError.class,
                                !.exit_code = main_exit_code(OSError)]
    /\ call' = call
    /\ SysFrozen

\* behind the loop: the errors kept are logged, and download_sitemaps returns
ReportDownloadErrors ==
    /\ call.fn = "download_sitemaps"
    /\ result.pc = "download"
    /\ result.i > Len(call.nodes)
    /\ result' = [result EXCEPT !.log = result.errors, !.pc = "extract"]
    /\ call' = call
    /\ SysFrozen

\* main() after download_sitemaps: extract_url_map, exit 1 without URLs, save_urls_csv
ExtractAndSave ==
    /\ call.fn = "download_sitemaps"
    /\ result.pc = "extract"
    /\ result' = IF extract_url_map(call.nodes) = <<>>
                 THEN [result EXCEPT !.pc = "exit", !.done = TRUE,
                                     !.raised = SystemExit(1).class,
                                     !.exit_code = main_exit_code(SystemExit(1))]
                 ELSE [result EXCEPT !.pc = "saved", !.done = TRUE,
                                     !.urls_csv = save_urls_csv(extract_url_map(call.nodes))]
    /\ call' = call
    /\ SysFrozen

DownloadNext ==
    \/ DownloadSitemap
    \/ DownloadSitemapFails
    \/ DownloadWriteRaises
    \/ ReportDownloadErrors
    \/ ExtractAndSave

SpecDownload == DownloadInit /\ [][DownloadNext]_vars

\* C17: the nodes are requested one by one in list order, each once, whatever failed
\* before; a failed request ends neither the loop nor the run, it is kept in errors;
\* nothing is logged before the last node has been tried, and then every failure is;
\* after that main() goes on to extract the URLs and to write urls.csv.
C17_DownloadFailuresCollected ==
    LET nodes == call.nodes
        r == result
    IN /\ r.attempts = [k \in 1..Len(r.attempts) |-> nodes[k].url]
       /\ r.raised # "OSError" =>
            /\ Len(r.attempts) = r.i - 1
            /\ Len(r.errors) + Cardinality(r.files) = Len(r.attempts)
            /\ \A k \in 1..Len(r.attempts) :
                (quote(nodes[k].url) \in r.files) #
                (\E e \in 1..Len(r.errors) : r.errors[e][2] = nodes[k].url)
       /\ r.pc = "download" => (r.log = <<>> /\ r.exit_code = None)
       /\ (r.pc = "download" /\ r.i <= Len(nodes)) => ENABLED DownloadSitemap
       /\ (r.pc = "download" /\ r.i > Len(nodes)) => ENABLED ReportDownloadErrors
       /\ r.pc \in {"extract", "saved"} =>
            /\ Len(r.attempts) = Len(nodes)
            /\ r.log = r.errors
       /\ r.raised # "OSError" /\ r.done =>
            /\ Len(r.attempts) = Len(nodes)
            /\ r.log = r.errors
            /\ IF extract_url_map(nodes) = <<>>
               THEN r.pc = "exit" /\ r.raised = "SystemExit" /\ ~ r.urls_csv.exists
               ELSE /\ r.pc = "saved" /\ r.exit_code = None
                    /\ UrlColumn(r.urls_csv) = Keys(extract_url_map(nodes))

\* the first of three downloads failed, the other two were made, the failure was
\* logged behind the loop, and urls.csv is written
C17_Witness ==
    /\ result.pc = "saved"
    /\ Len(call.nodes) = MaxDownloads
    /\ result.errors = <<<<"Failed to download", call.nodes[1].url>>>>
    /\ result.log = result.errors
    /\ result.files = {quote(call.nodes[k].url) : k \in 2..Len(call.nodes)}
    /\ result.urls_csv.exists

CompareInit ==
    /\ SysInit
    /\ call \in [fn : {"process_diff"}, url_map : UrlMaps,
                 prev_csv : {save_urls_csv(m) : m \in UrlMaps \ {<<>>}} \cup {EmptyFile}]
    /\ result = NoResult

CallCompareUrls ==
    /\ call.fn = "process_diff"
    /\ ~ result.done
    /\ LET current_urls == Keys(call.url_map)
           prev_urls == load_previous_urls(call.prev_csv)
       IN result' = [done |-> TRUE, value |-> find_url_differences(current_urls, prev_urls)]
    /\ call' = call
    /\ SysFrozen

SpecCompare == CompareInit /\ [][CallCompareUrls]_vars

\* the source a urls.csv records for a URL
SourceInCsv(file, url) ==
    file.rows[CHOOSE i \in 1..Len(file.rows) : file.rows[i][1] = url][2]

\* C19: the new and the deleted URLs of a comparison have no URL in common; taking
\* the deleted ones out of the previous set and adding the new ones gives the current
\* set; a URL of both runs is in neither part, whichever sitemap lists it now.
C19_DiffPartitionsChange ==
    result.done =>
        LET current == {call.url_map[i].url : i \in 1..Len(call.url_map)}
            previous == UrlColumn(call.prev_csv)
            new == result.value.new_urls
            deleted == result.value.deleted_urls
        IN /\ new \cap deleted = {}
           /\ (previous \ deleted) \cup new = current
           /\ (current \ new) \cup deleted = previous
           /\ \A u \in current \cap previous : u \notin new /\ u \notin deleted

\* a URL was listed by one sitemap before and is listed by the other now, beside a
\* new and a deleted URL, and it is in neither part of the diff
C19_Witness ==
    /\ result.done
    /\ result.value.new_urls # {}
    /\ result.value.deleted_urls # {}
    /\ \E i \in 1..Len(call.url_map) :
        /\ call.url_map[i].url \in UrlColumn(call.prev_csv)
        /\ call.url_map[i].source # SourceInCsv(call.prev_csv, call.url_map[i].url)
        /\ call.url_map[i].url \notin result.value.new_urls \cup result.value.deleted_urls

====
